---- MODULE Spec2Model ----
(***************************************************************************)
(* Model of the tunnel-backed connection path of geb: ConnectViaSSH,       *)
(* ViaSSHDialer, PGViaSSH.Ping and PGViaSSH.Close.                          *)
(*                                                                         *)
(* Every ConnectViaSSH call is a process with a program counter, one step  *)
(* per library call of the function body, so that calls made from several  *)
(* goroutines interleave.  The handle a call returns is identified by the  *)
(* call's number: handle h holds the database client sqldb[h] and the      *)
(* Tunnel Session session[h].                                              *)
(***************************************************************************)
EXTENDS Integers, FiniteSets, Sequences, TLC

\* ---------------------------------------------------------------- bounds
MaxCalls == 2       \* ConnectViaSSH calls made in the process
MaxDials == 2       \* physical dials made by the database clients
MaxCloses == 2      \* Close calls made on one handle
MaxConc == 2        \* goroutines that call Dial on a dialer concurrently

Calls == 1..MaxCalls
Slots == 1..MaxConc

\* ------------------------------------------------------------- constants
DriverName == "postgres+ssh"
Names == {DriverName}
DefaultMaxIdleConns == 2
IdleChoices == {0, 1}
HostKeys == {"expected", "other"}   \* host key a reachable host presents
SSHNets == {"up", "unreachable", "reject"}   \* what the SSH host does
Networks == {"tcp", "unix"}
DBAddr == "db:5432"
Addresses == {DBAddr, "localhost:5432"}
Timeouts == {0, 2}        \* connect_timeout seen by pq; 0 is "not set"
Latencies == {1, 3}       \* time the remote side takes to open a channel

VARIABLES
    pc,          \* position of each ConnectViaSSH call
    conf,        \* the ConnectViaSSHConfig of each call
    result,      \* how each call ended
    ret,         \* the *PGViaSSH each call returned
    sshDialed,   \* the call has called ssh.Dial (network activity)
    sshIn,       \* what the call's ssh.Dial met: the host and its host key
    opened,      \* which of the two opens of the call succeeded
    session,     \* the ssh.Client obtained by each call
    drivers,     \* database/sql's process-wide registry: name -> dialer
    regName,     \* the name each call passed to sql.Register
    sqldb,       \* the sql.DB opened by each call
    dialCalls,   \* calls of Dial/DialTimeout on each call's ViaSSHDialer
    physDials,   \* physical connections each database client dialed
    connVia,     \* dialers each database client's connections went through
    lastDial,    \* the last Dial/DialTimeout call made on each dialer
    dbReachable, \* the database answers from the bastion's network
    closePc,     \* position inside PGViaSSH.Close of each handle
    curClose,    \* what the running / last Close of each handle did
    closeCount,  \* Close calls that have returned, per handle
    lastPing,    \* result of the last Ping of each handle
    pingPc,      \* position inside PGViaSSH.Ping of each handle, and the
                 \* state of the ctx the running Ping was given
    dpc,         \* position of each goroutine that calls Dial concurrently
    got,         \* the channel each of those Dial calls returned
    chanCount,   \* channels opened so far on each session
    wire         \* <<channel, goroutine>>: data the goroutine wrote can be
                 \* read at the far end of the channel

vars == <<pc, conf, result, ret, sshDialed, sshIn, opened, session, drivers, regName, sqldb,
          dialCalls, physDials, connVia, lastDial,
          dbReachable, closePc, curClose,
          closeCount, lastPing, pingPc, dpc, got, chanCount, wire>>

connectVars == <<pc, conf, result, ret, sshDialed, sshIn, opened, regName>>
dialVars == <<dialCalls, physDials, connVia, lastDial>>
poolVars == <<sqldb, dialVars>>
netVars == <<dbReachable>>
pingVars == <<lastPing, pingPc>>
chanVars == <<dpc, got, chanCount, wire>>
handleVars == <<closePc, curClose, closeCount, pingVars>>

NilHandle == [nil |-> TRUE, DB |-> 0, SSHCon |-> 0]
NoDB == [state |-> "none", driver |-> 0, free |-> 0, maxIdle |-> 0,
         connectTimeout |-> 0]
NoClose == [clientCalled |-> FALSE, clientErr |-> FALSE, dbWasClosed |-> FALSE,
            sessionCalled |-> FALSE, sessionErr |-> FALSE, ret |-> "none"]

NoConn == [via |-> 0, network |-> "", address |-> ""]
NoChan == [via |-> 0, id |-> 0]
NoDial == [fn |-> "none", err |-> "nil", late |-> FALSE]

Min(a, b) == IF a < b THEN a ELSE b

Init ==
    /\ pc = [c \in Calls |-> "start"]
    /\ conf = [c \in Calls |-> [keyOk |-> TRUE, MaxIdleCon |-> 0]]
    /\ result = [c \in Calls |-> "none"]
    /\ ret = [c \in Calls |-> NilHandle]
    /\ sshDialed = [c \in Calls |-> FALSE]
    /\ sshIn = [c \in Calls |-> [net |-> "up", hostKey |-> ""]]
    /\ opened = [c \in Calls |-> [ssh |-> FALSE, db |-> FALSE]]
    /\ session = [c \in Calls |-> "none"]
    /\ drivers = [n \in Names |-> 0]
    /\ regName = [c \in Calls |-> ""]
    /\ sqldb = [c \in Calls |-> NoDB]
    /\ dialCalls = [c \in Calls |-> 0]
    /\ physDials = [c \in Calls |-> 0]
    /\ connVia = [c \in Calls |-> {}]
    /\ lastDial = [c \in Calls |-> NoDial]
    /\ dbReachable = TRUE
    /\ closePc = [c \in Calls |-> "idle"]
    /\ curClose = [c \in Calls |-> NoClose]
    /\ closeCount = [c \in Calls |-> 0]
    /\ lastPing = [c \in Calls |-> "none"]
    /\ pingPc = [c \in Calls |-> "idle"]
    /\ dpc = [k \in Slots |-> "idle"]
    /\ got = [k \in Slots |-> NoChan]
    /\ chanCount = [c \in Calls |-> 0]
    /\ wire = {}

\* ------------------------------------------------------------ ViaSSHDialer
\* ssh.Client.Dial on the session the dialer d wraps: a channel to the
\* address is returned when the session is live and the target answers,
\* after the time lat the remote side takes for it.
ClientDial(d, network, address, lat) ==
    IF d \in Calls /\ session[d] = "open" /\ dbReachable
    THEN [err |-> "nil", elapsed |-> lat,
          conn |-> [via |-> d, network |-> network, address |-> address]]
    ELSE [err |-> "dial", elapsed |-> 0, conn |-> NoConn]

\* ViaSSHDialer.Dial
Dial(d, network, address, lat) == ClientDial(d, network, address, lat)

\* Variant: DialTimeout gives up when the timeout is shorter than the dial.
DialTimeoutEnforced(d, network, address, timeout, lat) ==
    LET r == ClientDial(d, network, address, lat) IN
    IF r.err = "nil" /\ timeout > 0 /\ timeout < r.elapsed
    THEN [err |-> "timeout", elapsed |-> timeout, conn |-> NoConn]
    ELSE r

\* ViaSSHDialer.DialTimeout: the timeout is not passed on
DialTimeout(d, network, address, timeout, lat) ==
    ClientDial(d, network, address, lat)

\* ViaSSHDialer.Open -> pq.DialOpen(self, s): pq calls DialTimeout when a
\* connect_timeout is set and Dial otherwise, on the dialer the sql.DB of
\* call c was opened with.
DriverDial(c, lat) ==
    IF sqldb[c].connectTimeout > 0
    THEN DialTimeout(sqldb[c].driver, "tcp", DBAddr, sqldb[c].connectTimeout,
                     lat)
    ELSE Dial(sqldb[c].driver, "tcp", DBAddr, lat)

\* One physical connection of the database client of call c is dialed.
DriverOpen(c) ==
    LET d == sqldb[c].driver IN
    /\ dialCalls[d] < MaxDials
    /\ dialCalls' = [dialCalls EXCEPT ![d] = @ + 1]
    /\ physDials' = [physDials EXCEPT ![c] = @ + 1]
    /\ connVia' = [connVia EXCEPT ![c] = @ \cup {d}]
    /\ \E lat \in Latencies :
        LET r == DriverDial(c, lat) IN
        lastDial' = [lastDial EXCEPT ![d] =
                       [fn |-> IF sqldb[c].connectTimeout > 0
                               THEN "DialTimeout" ELSE "Dial",
                        err |-> r.err,
                        late |-> /\ r.err = "nil"
                                 /\ sqldb[c].connectTimeout > 0
                                 /\ sqldb[c].connectTimeout < r.elapsed]]

DriverOpenOk(c) == \E lat \in Latencies : DriverDial(c, lat).err = "nil"

\* ----------------------------------------------------------------- sql.DB
\* sqlDB.Ping(): "closed" when the sql.DB is closed, otherwise the outcome of
\* a round trip on a pooled or a freshly dialed connection.
PingOutcome(c) ==
    IF sqldb[c].state # "open" THEN "closed"
    ELSE IF DriverOpenOk(c) THEN "ok" ELSE "neterr"

PoolPing(c) ==
    IF sqldb[c].state # "open"
    THEN UNCHANGED poolVars
    ELSE IF DriverOpenOk(c)
    THEN \E reuse \in BOOLEAN :
            /\ reuse => sqldb[c].free > 0
            /\ IF reuse
               THEN UNCHANGED poolVars
               ELSE /\ DriverOpen(c)
                    /\ sqldb' = [sqldb EXCEPT ![c].free =
                                   IF sqldb[c].maxIdle > 0
                                   THEN Min(@ + 1, sqldb[c].maxIdle) ELSE 0]
    ELSE /\ DriverOpen(c)
         /\ sqldb' = [sqldb EXCEPT ![c].free = 0]

\* ---------------------------------------------------------- ConnectViaSSH
\* Variant: the error of ssh.ParsePrivateKey is not checked.
ParsePrivateKeyIgnoreErr(c) ==
    /\ pc[c] = "start"
    /\ c > 1 => pc[c - 1] # "start"
    /\ \E k \in BOOLEAN : conf' = [conf EXCEPT ![c].keyOk = k]
    /\ pc' = [pc EXCEPT ![c] = "sshDial"]
    /\ UNCHANGED <<result, ret, sshDialed, sshIn, opened, session, drivers, regName,
                   poolVars, netVars, handleVars, chanVars>>

\* ssh.ParsePrivateKey and its error return.  Calls are numbered in the
\* order in which they start.
ParsePrivateKey(c) ==
    /\ pc[c] = "start"
    /\ c > 1 => pc[c - 1] # "start"
    /\ \E k \in BOOLEAN :
        /\ conf' = [conf EXCEPT ![c].keyOk = k]
        /\ IF k
           THEN /\ pc' = [pc EXCEPT ![c] = "sshDial"]
                /\ UNCHANGED result
           ELSE /\ pc' = [pc EXCEPT ![c] = "done"]
                /\ result' = [result EXCEPT ![c] = "keyerr"]
    /\ UNCHANGED <<ret, sshDialed, sshIn, opened, session, drivers, regName,
                   poolVars, netVars, handleVars, chanVars>>

\* Variant: a host-key callback that accepts the expected key only.
HostKeyPinned(key) == key = "expected"

\* HostKeyCallback: ssh.InsecureIgnoreHostKey() accepts every host key.
HostKeyCallback(key) == TRUE

\* ssh.Dial("tcp", host:port, sshConfig): the TCP connect, the key exchange
\* with the host-key callback, and public-key authentication.
SSHOutcome(net, key) ==
    IF net = "unreachable" THEN "unreachable"
    ELSE IF ~HostKeyCallback(key) THEN "handshake"
    ELSE IF net = "reject" THEN "handshake"
    ELSE "ok"

\* Variant: the error of ssh.Dial is not checked.
SSHDialIgnoreErr(c) ==
    /\ pc[c] = "sshDial"
    /\ sshDialed' = [sshDialed EXCEPT ![c] = TRUE]
    /\ \E net \in SSHNets, key \in HostKeys :
        LET out == SSHOutcome(net, key) IN
        /\ sshIn' = [sshIn EXCEPT ![c] =
                        [net |-> net,
                         hostKey |-> IF net = "unreachable" THEN "" ELSE key]]
        /\ session' = [session EXCEPT ![c] =
                          CASE out = "ok" -> "open"
                            [] out = "handshake" -> "closed"
                            [] OTHER -> "none"]
        /\ opened' = [opened EXCEPT ![c].ssh = (out = "ok")]
    /\ pc' = [pc EXCEPT ![c] = "register"]
    /\ UNCHANGED <<conf, result, ret, drivers, regName, poolVars, netVars,
                   handleVars, chanVars>>

\* ssh.Dial and its error return.  A failed TCP connect leaves no transport;
\* a failed handshake closes the transport inside ssh.NewClientConn.
SSHDial(c) ==
    /\ pc[c] = "sshDial"
    /\ sshDialed' = [sshDialed EXCEPT ![c] = TRUE]
    /\ \E net \in SSHNets, key \in HostKeys :
        LET out == SSHOutcome(net, key) IN
        /\ sshIn' = [sshIn EXCEPT ![c] =
                        [net |-> net,
                         hostKey |-> IF net = "unreachable" THEN "" ELSE key]]
        /\ IF out = "ok"
           THEN /\ session' = [session EXCEPT ![c] = "open"]
                /\ opened' = [opened EXCEPT ![c].ssh = TRUE]
                /\ pc' = [pc EXCEPT ![c] = "register"]
                /\ UNCHANGED result
           ELSE /\ session' = [session EXCEPT ![c] =
                                  IF out = "handshake" THEN "closed"
                                  ELSE "none"]
                /\ pc' = [pc EXCEPT ![c] = "done"]
                /\ result' = [result EXCEPT ![c] = "dialerr"]
                /\ UNCHANGED opened
    /\ UNCHANGED <<conf, ret, drivers, regName, poolVars, netVars,
                   handleVars, chanVars>>

\* Variant: a registry that keeps the first dialer of a name and accepts the
\* second registration silently.
RegisterKeepFirst(c) ==
    /\ pc[c] = "register"
    /\ regName' = [regName EXCEPT ![c] = DriverName]
    /\ drivers' = [drivers EXCEPT ![DriverName] = IF @ # 0 THEN @ ELSE c]
    /\ pc' = [pc EXCEPT ![c] = "sqlOpen"]
    /\ UNCHANGED <<conf, result, ret, sshDialed, sshIn, opened, session, poolVars,
                   netVars, handleVars, chanVars>>

\* sql.Register("postgres+ssh", &ViaSSHDialer{sshcon}): database/sql panics
\* when the name is already registered.
Register(c) ==
    /\ pc[c] = "register"
    /\ regName' = [regName EXCEPT ![c] = DriverName]
    /\ IF drivers[DriverName] # 0
       THEN /\ pc' = [pc EXCEPT ![c] = "panicked"]
            /\ result' = [result EXCEPT ![c] = "panic"]
            /\ UNCHANGED drivers
       ELSE /\ drivers' = [drivers EXCEPT ![DriverName] = c]
            /\ pc' = [pc EXCEPT ![c] = "sqlOpen"]
            /\ UNCHANGED result
    /\ UNCHANGED <<conf, ret, sshDialed, sshIn, opened, session, poolVars,
                   netVars, handleVars, chanVars>>

\* sql.Open("postgres+ssh", dsn): binds the sql.DB to the driver found under
\* the name; fails only for an unknown name.  No connection is made yet.
\* The dsn of line 118 sets no connect_timeout; pq takes one from the
\* process environment (PGCONNECT_TIMEOUT) when there is one.
SqlOpen(c) ==
    /\ pc[c] = "sqlOpen"
    /\ IF drivers[DriverName] = 0
       THEN /\ pc' = [pc EXCEPT ![c] = "done"]
            /\ result' = [result EXCEPT ![c] = "openerr"]
            /\ UNCHANGED sqldb
       ELSE /\ \E t \in Timeouts :
                 sqldb' = [sqldb EXCEPT ![c] =
                            [state |-> "open", driver |-> drivers[DriverName],
                             free |-> 0, maxIdle |-> DefaultMaxIdleConns,
                             connectTimeout |-> t]]
            /\ pc' = [pc EXCEPT ![c] = "gormOpen"]
            /\ UNCHANGED result
    /\ UNCHANGED <<conf, ret, sshDialed, sshIn, opened, session, drivers, regName,
                   dialVars, netVars, handleVars, chanVars>>

\* Variant: the error of gorm.Open is not checked.
GormOpenIgnoreErr(c) ==
    /\ pc[c] = "gormOpen"
    /\ PoolPing(c)
    /\ opened' = [opened EXCEPT ![c].db = (PingOutcome(c) = "ok")]
    /\ pc' = [pc EXCEPT ![c] = "setIdle"]
    /\ UNCHANGED <<conf, result, ret, sshDialed, sshIn, session, drivers,
                   regName,
                   netVars, handleVars, chanVars>>

\* gorm.Open(postgres.New(Config{Conn: sqldb}), ...): adopts the sql.DB and
\* pings it; the ping's error is the error return.
GormOpen(c) ==
    /\ pc[c] = "gormOpen"
    /\ PoolPing(c)
    /\ opened' = [opened EXCEPT ![c].db = (PingOutcome(c) = "ok")]
    /\ IF PingOutcome(c) = "ok"
       THEN /\ pc' = [pc EXCEPT ![c] = "setIdle"]
            /\ UNCHANGED result
       ELSE /\ pc' = [pc EXCEPT ![c] = "done"]
            /\ result' = [result EXCEPT ![c] = "openerr"]
    /\ UNCHANGED <<conf, ret, sshDialed, sshIn, session, drivers,
                   regName,
                   netVars, handleVars, chanVars>>

\* db.DB(), sqlDB.SetMaxIdleConns(conf.MaxIdleCon) and the successful return.
\* conf.MaxIdleCon is read here for the first time, so its value is drawn
\* here.
Finish(c) ==
    /\ pc[c] = "setIdle"
    /\ \E m \in IdleChoices :
        /\ conf' = [conf EXCEPT ![c].MaxIdleCon = m]
        /\ sqldb' = [sqldb EXCEPT
                       ![c].maxIdle = m,
                       ![c].free = IF m > 0 THEN Min(@, m) ELSE 0]
    /\ ret' = [ret EXCEPT ![c] = [nil |-> FALSE, DB |-> c, SSHCon |-> c]]
    /\ result' = [result EXCEPT ![c] = "ok"]
    /\ pc' = [pc EXCEPT ![c] = "done"]
    /\ UNCHANGED <<sshDialed, sshIn, opened, session, drivers, regName,
                   dialVars, netVars, handleVars, chanVars>>

\* ----------------------------------------------------------------- PGViaSSH
Returned(h) == ~ret[h].nil

\* Variant: a Ping whose health check fails closes the session.
PingDropsSession(h) ==
    /\ Returned(h)
    /\ pingPc[h] \in {"blocked", "ctxDone"}
    /\ PoolPing(ret[h].DB)
    /\ lastPing' = [lastPing EXCEPT ![h] = PingOutcome(ret[h].DB)]
    /\ pingPc' = [pingPc EXCEPT ![h] = "idle"]
    /\ session' = [session EXCEPT ![ret[h].SSHCon] =
                      IF PingOutcome(ret[h].DB) = "ok" THEN @ ELSE "closed"]
    /\ UNCHANGED <<chanVars, connectVars, drivers, netVars, closePc, curClose,
                   closeCount>>

\* PGViaSSH.Ping(ctx) up to the call of sqlDB.Ping(): pg.DB.WithContext(ctx)
\* .DB() hands back the *sql.DB, and sqlDB.Ping() is entered without the ctx.
PingCall(h) ==
    /\ Returned(h)
    /\ pingPc[h] = "idle"
    /\ pingPc' = [pingPc EXCEPT ![h] = "blocked"]
    /\ UNCHANGED <<chanVars, connectVars, session, drivers, poolVars, netVars,
                   closePc, curClose, closeCount, lastPing>>

\* The caller cancels the ctx of the running Ping, or its deadline passes.
CtxDone(h) ==
    /\ pingPc[h] = "blocked"
    /\ pingPc' = [pingPc EXCEPT ![h] = "ctxDone"]
    /\ UNCHANGED <<chanVars, connectVars, session, drivers, poolVars, netVars,
                   closePc, curClose, closeCount, lastPing>>

\* PGViaSSH.Ping: the I/O of sqlDB.Ping() completes and its result is
\* returned.  sqlDB.Ping() runs under context.Background(), so nothing else
\* ends the wait.
Ping(h) ==
    /\ Returned(h)
    /\ pingPc[h] \in {"blocked", "ctxDone"}
    /\ PoolPing(ret[h].DB)
    /\ lastPing' = [lastPing EXCEPT ![h] = PingOutcome(ret[h].DB)]
    /\ pingPc' = [pingPc EXCEPT ![h] = "idle"]
    /\ UNCHANGED <<chanVars, connectVars, session, drivers, netVars, closePc,
                   curClose, closeCount>>

\* Variant: Close calls pg.SSHCon.Close() before sqlDB.Close().
CloseSessionFirst(h) ==
    /\ Returned(h)
    /\ closePc[h] = "idle"
    /\ closeCount[h] < MaxCloses
    /\ session' = [session EXCEPT ![ret[h].SSHCon] = "closed"]
    /\ curClose' = [curClose EXCEPT ![h] =
                       [NoClose EXCEPT !.sessionCalled = TRUE]]
    /\ closePc' = [closePc EXCEPT ![h] = "session"]
    /\ UNCHANGED <<chanVars, connectVars, drivers, poolVars, netVars, closeCount,
                   pingVars>>

\* Variant: Close does not call sqlDB.Close() and goes on to the session.
CloseSkipsClient(h) ==
    /\ Returned(h)
    /\ closePc[h] = "idle"
    /\ closeCount[h] < MaxCloses
    /\ curClose' = [curClose EXCEPT ![h] = NoClose]
    /\ closePc' = [closePc EXCEPT ![h] = "session"]
    /\ UNCHANGED <<chanVars, connectVars, session, drivers, poolVars, netVars,
                   closeCount, pingVars>>

\* Variant: sqlDB.Close() on a closed pool reports an error, which Close
\* returns.
CloseClientErrOnClosed(h) ==
    /\ Returned(h)
    /\ closePc[h] = "idle"
    /\ closeCount[h] < MaxCloses
    /\ LET db == ret[h].DB IN
       \E e \in BOOLEAN :
        LET err == IF sqldb[db].state # "open" THEN TRUE ELSE e IN
        /\ (err /\ sqldb[db].state = "open") => sqldb[db].free > 0
        /\ sqldb' = [sqldb EXCEPT ![db].state = "closed", ![db].free = 0]
        /\ IF err
           THEN /\ curClose' = [curClose EXCEPT ![h] =
                                   [NoClose EXCEPT
                                      !.clientCalled = TRUE,
                                      !.clientErr = TRUE,
                                      !.dbWasClosed = (sqldb[db].state # "open"),
                                      !.ret = "clienterr"]]
                /\ closeCount' = [closeCount EXCEPT ![h] = @ + 1]
                /\ UNCHANGED closePc
           ELSE /\ curClose' = [curClose EXCEPT ![h] =
                                   [NoClose EXCEPT !.clientCalled = TRUE]]
                /\ closePc' = [closePc EXCEPT ![h] = "session"]
                /\ UNCHANGED closeCount
    /\ UNCHANGED <<chanVars, connectVars, session, drivers, dialVars, netVars,
                   pingVars>>

\* PGViaSSH.Close up to and including the error return of sqlDB.Close().
\* sql.DB.Close marks the pool closed and then closes the idle connections;
\* an error of one of those closes is its result.  On a closed pool it
\* returns nil.
CloseClient(h) ==
    /\ Returned(h)
    /\ closePc[h] = "idle"
    /\ closeCount[h] < MaxCloses
    /\ LET db == ret[h].DB IN
       \E err \in BOOLEAN :
        /\ err => (sqldb[db].state = "open" /\ sqldb[db].free > 0)
        /\ sqldb' = [sqldb EXCEPT ![db].state = "closed", ![db].free = 0]
        /\ IF err
           THEN /\ curClose' = [curClose EXCEPT ![h] =
                                   [NoClose EXCEPT !.clientCalled = TRUE,
                                                   !.clientErr = TRUE,
                                                   !.ret = "clienterr"]]
                /\ closeCount' = [closeCount EXCEPT ![h] = @ + 1]
                /\ UNCHANGED closePc
           ELSE /\ curClose' = [curClose EXCEPT ![h] =
                                   [NoClose EXCEPT
                                      !.clientCalled = TRUE,
                                      !.dbWasClosed = (sqldb[db].state # "open")]]
                /\ closePc' = [closePc EXCEPT ![h] = "session"]
                /\ UNCHANGED closeCount
    /\ UNCHANGED <<chanVars, connectVars, session, drivers, dialVars, netVars,
                   pingVars>>

\* Variant: Close drops the driver registration of the handle's dialer.
CloseSessionUnregisters(h) ==
    /\ closePc[h] = "session"
    /\ LET s == ret[h].SSHCon IN
       \E err \in BOOLEAN :
        /\ session[s] # "open" => err
        /\ session' = [session EXCEPT ![s] = "closed"]
        /\ drivers' = [n \in Names |-> IF drivers[n] = s THEN 0 ELSE drivers[n]]
        /\ curClose' = [curClose EXCEPT ![h].sessionCalled = TRUE,
                                        ![h].sessionErr = err,
                                        ![h].ret = IF err THEN "sessionerr"
                                                   ELSE "ok"]
    /\ closePc' = [closePc EXCEPT ![h] = "idle"]
    /\ closeCount' = [closeCount EXCEPT ![h] = @ + 1]
    /\ UNCHANGED <<chanVars, connectVars, poolVars, netVars, pingVars>>

\* Variant: Close returns nil without calling pg.SSHCon.Close().
CloseSessionForgotten(h) ==
    /\ closePc[h] = "session"
    /\ curClose' = [curClose EXCEPT ![h].ret = "ok"]
    /\ closePc' = [closePc EXCEPT ![h] = "idle"]
    /\ closeCount' = [closeCount EXCEPT ![h] = @ + 1]
    /\ UNCHANGED <<chanVars, connectVars, session, drivers, poolVars, netVars, pingVars>>

\* PGViaSSH.Close from pg.SSHCon.Close() to the return.  Closing a session
\* that is already closed is an error; closing a live one may report one.
CloseSession(h) ==
    /\ closePc[h] = "session"
    /\ LET s == ret[h].SSHCon IN
       \E err \in BOOLEAN :
        /\ session[s] # "open" => err
        /\ session' = [session EXCEPT ![s] = "closed"]
        /\ curClose' = [curClose EXCEPT ![h].sessionCalled = TRUE,
                                        ![h].sessionErr = err,
                                        ![h].ret = IF err THEN "sessionerr"
                                                   ELSE "ok"]
    /\ closePc' = [closePc EXCEPT ![h] = "idle"]
    /\ closeCount' = [closeCount EXCEPT ![h] = @ + 1]
    /\ UNCHANGED <<chanVars, connectVars, drivers, poolVars, netVars, pingVars>>

\* ------------------------------------------------- concurrent Dial calls
\* Variant: the dialer hands out the channel it opened first.
CachedChannel(d) == 1

\* self.client.Dial opens a new channel on the session's connection; the
\* connection numbers its channels, so every open gets an id of its own.
NewChannel(d) == chanCount[d] + 1

\* A goroutine of the database client enters ViaSSHDialer.Dial on the
\* registered dialer.
DialCall(k) ==
    /\ dpc[k] = "idle"
    /\ drivers[DriverName] # 0
    /\ dpc' = [dpc EXCEPT ![k] = "dialing"]
    /\ UNCHANGED <<connectVars, session, drivers, poolVars, netVars,
                   handleVars, got, chanCount, wire>>

\* ViaSSHDialer.Dial returns to the goroutine: the channel, or the error.
DialReturn(k) ==
    /\ dpc[k] = "dialing"
    /\ LET d == drivers[DriverName] IN
       \E lat \in Latencies :
        IF Dial(d, "tcp", DBAddr, lat).err = "nil"
        THEN /\ got' = [got EXCEPT ![k] = [via |-> d, id |-> NewChannel(d)]]
             /\ chanCount' = [chanCount EXCEPT ![d] = @ + 1]
             /\ dpc' = [dpc EXCEPT ![k] = "open"]
        ELSE /\ dpc' = [dpc EXCEPT ![k] = "failed"]
             /\ UNCHANGED <<got, chanCount>>
    /\ UNCHANGED <<connectVars, session, drivers, poolVars, netVars,
                   handleVars, wire>>

\* The goroutine writes on the channel its Dial call returned.
ChanWrite(k) ==
    /\ dpc[k] = "open"
    /\ <<got[k], k>> \notin wire
    /\ wire' = wire \cup {<<got[k], k>>}
    /\ UNCHANGED <<connectVars, session, drivers, poolVars, netVars,
                   handleVars, dpc, got, chanCount>>

\* ------------------------------------------------------------- environment
\* The database behind the bastion goes away or comes back.
NetChange ==
    /\ dbReachable' = ~dbReachable
    /\ UNCHANGED <<chanVars, connectVars, session, drivers, poolVars,
                   handleVars>>

Next ==
    \/ \E c \in Calls : ParsePrivateKey(c)
    \/ \E c \in Calls : SSHDial(c)
    \/ \E c \in Calls : Register(c)
    \/ \E c \in Calls : SqlOpen(c)
    \/ \E c \in Calls : GormOpen(c)
    \/ \E c \in Calls : Finish(c)
    \/ \E h \in Calls : PingCall(h)
    \/ \E h \in Calls : CtxDone(h)
    \/ \E h \in Calls : Ping(h)
    \/ \E h \in Calls : CloseClient(h)
    \/ \E h \in Calls : CloseSession(h)
    \/ NetChange

Spec == Init /\ [][Next]_vars

\* The dialer under concurrent use: the process after its first
\* ConnectViaSSH call has returned a handle, with goroutines that dial
\* through the registered dialer while the handle is closed and the network
\* changes.
Connected ==
    /\ pc = [c \in Calls |-> IF c = 1 THEN "done" ELSE "start"]
    /\ conf = [c \in Calls |-> [keyOk |-> TRUE,
                                 MaxIdleCon |-> IF c = 1 THEN 1 ELSE 0]]
    /\ result = [c \in Calls |-> IF c = 1 THEN "ok" ELSE "none"]
    /\ ret = [c \in Calls |-> IF c = 1
                               THEN [nil |-> FALSE, DB |-> 1, SSHCon |-> 1]
                               ELSE NilHandle]
    /\ sshDialed = [c \in Calls |-> c = 1]
    /\ sshIn = [c \in Calls |-> [net |-> "up",
                                  hostKey |-> IF c = 1 THEN "other" ELSE ""]]
    /\ opened = [c \in Calls |-> [ssh |-> c = 1, db |-> c = 1]]
    /\ session = [c \in Calls |-> IF c = 1 THEN "open" ELSE "none"]
    /\ drivers = [n \in Names |-> 1]
    /\ regName = [c \in Calls |-> IF c = 1 THEN DriverName ELSE ""]
    /\ sqldb = [c \in Calls |->
                  IF c = 1
                  THEN [state |-> "open", driver |-> 1, free |-> 1,
                        maxIdle |-> 1, connectTimeout |-> 0]
                  ELSE NoDB]
    /\ dialCalls = [c \in Calls |-> IF c = 1 THEN 1 ELSE 0]
    /\ physDials = [c \in Calls |-> IF c = 1 THEN 1 ELSE 0]
    /\ connVia = [c \in Calls |-> IF c = 1 THEN {1} ELSE {}]
    /\ lastDial = [c \in Calls |->
                     IF c = 1
                     THEN [fn |-> "Dial", err |-> "nil", late |-> FALSE]
                     ELSE NoDial]
    /\ dbReachable = TRUE
    /\ closePc = [c \in Calls |-> "idle"]
    /\ curClose = [c \in Calls |-> NoClose]
    /\ closeCount = [c \in Calls |-> 0]
    /\ lastPing = [c \in Calls |-> "none"]
    /\ pingPc = [c \in Calls |-> "idle"]

InitDial ==
    /\ Connected
    /\ dpc = [k \in Slots |-> "idle"]
    /\ got = [k \in Slots |-> NoChan]
    /\ chanCount = [c \in Calls |-> 0]
    /\ wire = {}

NextDial ==
    \/ \E k \in Slots : DialCall(k)
    \/ \E k \in Slots : DialReturn(k)
    \/ \E k \in Slots : ChanWrite(k)
    \/ \E h \in Calls : CloseClient(h)
    \/ \E h \in Calls : CloseSession(h)
    \/ NetChange

SpecDial == InitDial /\ [][NextDial]_vars

TypeOK ==
    /\ pc \in [Calls -> {"start", "sshDial", "register", "sqlOpen", "gormOpen",
                         "setIdle", "done", "panicked"}]
    /\ result \in [Calls -> {"none", "ok", "keyerr", "dialerr", "openerr",
                             "panic"}]
    /\ session \in [Calls -> {"none", "open", "closed"}]
    /\ drivers \in [Names -> 0..MaxCalls]
    /\ \A c \in Calls : dialCalls[c] \in 0..MaxDials
    /\ \A c \in Calls : closeCount[c] \in 0..MaxCloses
    /\ dpc \in [Slots -> {"idle", "dialing", "open", "failed"}]
    /\ \A c \in Calls : chanCount[c] \in 0..MaxConc
\* ------------------------------------------------------------------ claims
CloseReturned(h) == closePc[h] = "idle" /\ curClose[h].ret # "none"

\* C1: in every execution of Close in which sqlDB.Close() fails,
\* pg.SSHCon.Close() has been called by the time Close returns.
C1_CloseAttemptsBoth ==
    \A h \in Calls :
        (CloseReturned(h) /\ curClose[h].clientErr) => curClose[h].sessionCalled

\* C2: a call that reaches sql.Register completes the registration; it never
\* aborts there, also when the name is already taken.
C2_RegistrationCannotFail ==
    \A c \in Calls : regName[c] # "" => result[c] # "panic"

\* C3: no two ConnectViaSSH calls pass the same driver name to sql.Register,
\* and the registry binds a name to the dialer of a call that registered it.
C3_FreshDriverName ==
    /\ \A c1, c2 \in Calls :
        (c1 # c2 /\ regName[c1] # "" /\ regName[c2] # "")
            => regName[c1] # regName[c2]
    /\ \A n \in Names : drivers[n] # 0 => regName[drivers[n]] = n

\* C4: every physical connection of a returned handle's database client was
\* dialed through the dialer that wraps the handle's own session (never an
\* OS socket, written 0, never another call's dialer), and that dialer was
\* called once per physical connection dialed.
C4_DialsThroughOwnSession ==
    \A h \in Calls :
        Returned(h) =>
            /\ sqldb[ret[h].DB].driver = ret[h].SSHCon
            /\ connVia[ret[h].DB] \subseteq {ret[h].SSHCon}
            /\ dialCalls[ret[h].SSHCon] = physDials[ret[h].DB]

C4_Witness ==
    \E h \in Calls :
        Returned(h) /\ physDials[ret[h].DB] >= 2 /\ connVia[ret[h].DB] = {h}

\* C5: a finished call returned a handle exactly when both the session open
\* and the database client open succeeded; an error return carries no
\* handle; the handle holds the call's own database client and session, and
\* both are live until Close is first called on it.
C5_AllOrNothing ==
    \A c \in Calls :
        /\ Returned(c) => pc[c] = "done"
        /\ pc[c] \in {"done", "panicked"} =>
              /\ Returned(c) <=> (opened[c].ssh /\ opened[c].db)
              /\ Returned(c) <=> result[c] = "ok"
        /\ Returned(c) => (ret[c].DB = c /\ ret[c].SSHCon = c)
        /\ (Returned(c) /\ curClose[c] = NoClose) =>
              (sqldb[c].state = "open" /\ session[c] = "open")

C5_Witness ==
    /\ \E c \in Calls :
          Returned(c) /\ sqldb[c].state = "open" /\ session[c] = "open"
    /\ \E c \in Calls : pc[c] = "done" /\ result[c] = "dialerr" /\ ~Returned(c)

\* C6: a call whose private key does not parse returns the key-parse error
\* and has made no ssh.Dial, no sql.Register and no database open.
C6_BadKeyNoNetwork ==
    \A c \in Calls :
        (pc[c] # "start" /\ ~conf[c].keyOk) =>
            /\ result[c] = "keyerr" /\ pc[c] = "done" /\ ~Returned(c)
            /\ ~sshDialed[c] /\ session[c] = "none"
            /\ regName[c] = "" /\ \A n \in Names : drivers[n] # c
            /\ sqldb[c] = NoDB /\ physDials[c] = 0 /\ dialCalls[c] = 0

C6_Witness ==
    \E c \in Calls : result[c] = "keyerr" /\ \E d \in Calls : sshDialed[d]

\* C7: a call whose ssh.Dial fails returns the dial error, holds no live
\* session, and has made no sql.Register and no database open.
C7_DialErrorLeavesNothing ==
    \A c \in Calls :
        (sshDialed[c] /\ ~opened[c].ssh) =>
            /\ result[c] = "dialerr" /\ pc[c] = "done" /\ ~Returned(c)
            /\ session[c] # "open"
            /\ regName[c] = "" /\ \A n \in Names : drivers[n] # c
            /\ sqldb[c] = NoDB /\ physDials[c] = 0 /\ dialCalls[c] = 0

C7_Witness ==
    /\ \E c \in Calls : result[c] = "dialerr" /\ session[c] = "closed"
    /\ \E c \in Calls : result[c] = "dialerr" /\ session[c] = "none"

\* C8: Close calls sqlDB.Close() before pg.SSHCon.Close(): a session is never
\* taken from open to closed while the database client of the same handle is
\* open, and the session step runs only after the client step succeeded.
C8_ClientClosedBeforeSession ==
    [][\A h \in Calls :
          /\ (session[h] = "open" /\ session'[h] = "closed")
                => (sqldb[h].state = "closed" /\ sqldb'[h].state = "closed")
          /\ curClose'[h].sessionCalled
                => (curClose'[h].clientCalled /\ ~curClose'[h].clientErr)]_vars

C8_Witness ==
    \E h \in Calls :
        /\ CloseReturned(h) /\ curClose[h].sessionCalled /\ curClose[h].ret = "ok"
        /\ session[h] = "closed" /\ sqldb[h].state = "closed"

\* C9: when sqlDB.Close() fails, the client-close error is discarded: Close
\* does not return it, it returns the outcome of the session-close step.
C9_ReturnsSessionCloseError ==
    \A h \in Calls :
        (CloseReturned(h) /\ curClose[h].clientErr) =>
            curClose[h].ret = (IF curClose[h].sessionErr THEN "sessionerr"
                               ELSE "ok")

\* C10: a Ping on a handle whose database client is open, with the session
\* live and the database reachable through it, succeeds; a Ping made after a
\* Close of the handle has returned fails with the connection-closed error.
C10_PingThenCloseThenPing ==
    [][\A h \in Calls :
          Ping(h) =>
            /\ (sqldb[h].state = "open" /\ session[h] = "open" /\ dbReachable)
                  => lastPing'[h] = "ok"
            /\ closeCount[h] > 0 => lastPing'[h] = "closed"]_vars

C10_Witness ==
    \E h \in Calls :
        /\ closeCount[h] > 0 /\ lastPing[h] = "closed"
        /\ physDials[h] >= 2

\* C11: a Ping whose ctx was cancelled (or timed out) while the health check
\* was blocked returns an error; it does not wait for the I/O and report its
\* result.
C11_PingHonoursCtx ==
    [][\A h \in Calls :
          (Ping(h) /\ pingPc[h] = "ctxDone") => lastPing'[h] # "ok"]_vars

\* C12: DialTimeout returns what Dial returns for every network, address and
\* timeout, also for a timeout shorter than the dial's latency: one channel
\* through the same session to the same address, or the same dial error, and
\* no dialer call has ever ended in a timeout error.
C12_DialTimeoutAsDial ==
    /\ \A d \in Calls, n \in Networks, a \in Addresses, t \in Timeouts,
          lat \in Latencies :
          DialTimeout(d, n, a, t, lat) = Dial(d, n, a, lat)
    /\ \A d \in Calls : lastDial[d].err # "timeout"

C12_Witness ==
    \E d \in Calls :
        /\ lastDial[d].fn = "DialTimeout" /\ lastDial[d].late
        /\ session[d] = "open" /\ dbReachable

\* C14: the result of opening the Tunnel Session does not depend on the host
\* key the remote presents: ssh.Dial's outcome is the same for every host
\* key, and two calls whose ssh.Dial met the same host behaviour ended the
\* same way whatever host keys they were shown.
C14_HostKeyIgnored ==
    /\ \A net \in SSHNets, k1, k2 \in HostKeys :
          SSHOutcome(net, k1) = SSHOutcome(net, k2)
    /\ \A c1, c2 \in Calls :
          (sshDialed[c1] /\ sshDialed[c2] /\ sshIn[c1].net = sshIn[c2].net)
            => /\ opened[c1].ssh = opened[c2].ssh
               /\ (result[c1] = "dialerr") <=> (result[c2] = "dialerr")
               /\ (session[c1] = "none") <=> (session[c2] = "none")

C14_Witness ==
    \E c1, c2 \in Calls :
        /\ sshDialed[c1] /\ sshDialed[c2]
        /\ sshIn[c1].net = "up" /\ sshIn[c2].net = "up"
        /\ sshIn[c1].hostKey = "expected" /\ sshIn[c2].hostKey = "other"
        /\ opened[c1].ssh /\ opened[c2].ssh

\* C15: the driver registry only grows: no step removes or changes an
\* existing registration, Ping and Close leave the registry as it is, and
\* the dialer a call registered stays registered under its name, also after
\* the call's handle has been closed.
C15_RegistryAdditiveOnly ==
    [][/\ \A n \in Names : drivers[n] # 0 => drivers'[n] = drivers[n]
       /\ \A h \in Calls :
            (PingCall(h) \/ Ping(h) \/ CloseClient(h) \/ CloseSession(h))
                => drivers' = drivers
       /\ \A c \in Calls :
            (regName[c] # "" /\ result[c] # "panic")
                => drivers'[regName[c]] = c]_vars

C15_Witness ==
    \E h \in Calls :
        /\ CloseReturned(h) /\ session[h] = "closed" /\ sqldb[h].state = "closed"
        /\ lastPing[h] # "none"
        /\ drivers[DriverName] = h

\* C16: no step of Ping opens, closes or replaces a session, whether the
\* health check succeeds or fails.
C16_PingLeavesSession ==
    [][\A h \in Calls : (PingCall(h) \/ Ping(h)) => session' = session]_vars

C16_Witness ==
    /\ \E h \in Calls : lastPing[h] = "neterr" /\ session[h] = "open"
    /\ \E h \in Calls : physDials[h] >= 2

\* C17: a Close called on a handle whose database client is already closed
\* gets no error from the client close, goes on to pg.SSHCon.Close(), and
\* has closed the session when it returns.
C17_CloseAfterClientClosed ==
    \A h \in Calls :
        (curClose[h].clientCalled /\ curClose[h].dbWasClosed) =>
            /\ ~curClose[h].clientErr
            /\ \/ closePc[h] = "session"
               \/ curClose[h].sessionCalled /\ session[ret[h].SSHCon] = "closed"

C17_Witness ==
    \E h \in Calls :
        /\ CloseReturned(h) /\ curClose[h].dbWasClosed
        /\ curClose[h].sessionCalled /\ curClose[h].ret = "ok"

\* C18: a ConnectViaSSH call that returned an error has left no session of
\* its own open and no registry entry of its own behind.
C18_FailedConnectLeavesNothing ==
    \A c \in Calls :
        (pc[c] = "done" /\ result[c] # "ok") =>
            /\ session[c] # "open"
            /\ \A n \in Names : drivers[n] # c

\* C19: a Close that returned nil has closed both the database client and the
\* session of its handle.
C19_CloseOkMeansBothClosed ==
    \A h \in Calls :
        (CloseReturned(h) /\ curClose[h].ret = "ok") =>
            /\ sqldb[ret[h].DB].state = "closed"
            /\ session[ret[h].SSHCon] = "closed"

C19_Witness ==
    \E h \in Calls :
        /\ CloseReturned(h) /\ curClose[h].ret = "ok" /\ closeCount[h] = 1
        /\ ~curClose[h].dbWasClosed

\* C13: on an opened session, Dial calls made concurrently by different
\* goroutines each return a channel of their own: no two of them hold the
\* same channel, and what one goroutine wrote on its channel cannot be read
\* on the channel of another.
C13_IndependentChannels ==
    \A k1, k2 \in Slots :
        (k1 # k2 /\ dpc[k1] = "open" /\ dpc[k2] = "open") =>
            /\ got[k1] # got[k2]
            /\ <<got[k2], k1>> \notin wire

C13_Witness ==
    \E k1, k2 \in Slots :
        /\ k1 # k2 /\ dpc[k1] = "open" /\ dpc[k2] = "open"
        /\ got[k1].via = got[k2].via /\ got[k1].id > got[k2].id
        /\ <<got[k1], k1>> \in wire /\ <<got[k2], k2>> \in wire
====
